---------------------------- MODULE Spec2Model ----------------------------
(***************************************************************************)
(* Image Reformer (src/image_reformer.py): a monochrome bitmap is packed   *)
(* into a 1-bit-per-pixel byte matrix and written out as a C source file.  *)
(* Text is modelled as a sequence of one-character strings, matrices as    *)
(* functions indexed from 0 like the Python lists they stand for.          *)
(***************************************************************************)
EXTENDS Integers, Sequences, FiniteSets, TLC

VARIABLES argv, pc, retval, exception, console, calls,
          image_grayscale, image_monochrome, img_height, img_width,
          output_arr, y, x,
          output_obj_name, bitmap_dimensions, bitmap_values,
          output_file_name, handle, file_exists, file_text, writes, row

vars == <<argv, pc, retval, exception, console, calls,
          image_grayscale, image_monochrome, img_height, img_width,
          output_arr, y, x,
          output_obj_name, bitmap_dimensions, bitmap_values,
          output_file_name, handle, file_exists, file_text, writes, row>>

(* ------------------------------ bounds --------------------------------- *)
MaxArgs == 3
MaxHeight == 2
MaxWidth == 9
MaxPixels == 9

(* ---------------------- environment and inputs ------------------------- *)
\* Two command-line words: the path of a BMP file, and a word that is both a
\* usable symbol name and the path of a file that is not a BMP.
ARG_BMP == <<"m", ".", "b", "m", "p">>
ARG_FOO == <<"f", "o", "o">>
ArgStrings == {ARG_BMP, ARG_FOO}

RECURSIVE SeqsUpTo(_, _)
SeqsUpTo(S, n) ==
  IF n = 0 THEN {<<>>}
  ELSE LET shorter == SeqsUpTo(S, n - 1)
       IN  shorter \cup {Append(s, e) : s \in {t \in shorter : Len(t) = n - 1}, e \in S}

\* Gray levels a palette entry may decode to: black, near-black, white.
GrayLevels == {0, 1, 255}

\* A 1-bit bitmap carries a palette of two colours, so its decoded matrix
\* holds at most two distinct intensities.
Palettes == {p \in SUBSET GrayLevels : Cardinality(p) = 2}

Shapes == {s \in (0..MaxHeight) \X (0..MaxWidth) : s[1] * s[2] <= MaxPixels}

\* What cv2.imread(path, 0) can return for a readable bitmap: a 2-D array
\* with a shape (h, w) and one intensity per pixel.
Images ==
  UNION {{[h |-> s[1], w |-> s[2], px |-> p] :
             p \in [0..(s[1] - 1) -> [0..(s[2] - 1) -> pal]]} :
         s \in Shapes, pal \in Palettes}

NoImage == [h |-> 0, w |-> 0, px |-> <<>>]

(* ------------------------------ templates ------------------------------ *)
SOURCE_PROLOGUE ==
  <<
    "/", "*", " ", "T", "h", "i", "s", " ", "f", "i", "l", "e", " ", "w",
    "a", "s", " ", "a", "u", "t", "o", "m", "a", "t", "i", "c", "a", "l",
    "l", "y", " ", "g", "e", "n", "e", "r", "a", "t", "e", "d", " ", "u",
    "s", "i", "n", "g", " ", "i", "m", "a", "g", "e", "_", "r", "e", "f",
    "o", "r", "m", "e", "r", ".", "p", "y", " ", "*", "/", "\n", "\n", "#",
    "i", "n", "c", "l", "u", "d", "e", " ", "\"", "g", "r", "l", "i", "b",
    ".", "h", "\"", "\n", "#", "i", "n", "c", "l", "u", "d", "e", " ", "\"",
    ".", ".", "/", "g", "f", "x", ".", "h", "\"", "\n", "\n", "s", "t", "a",
    "t", "i", "c", " ", "c", "o", "n", "s", "t", " ", "u", "n", "s", "i",
    "g", "n", "e", "d", " ", "c", "h", "a", "r", " ", "p", "i", "x", "e",
    "l", "_", "{0}", "1", "B", "P", "P", "_", "U", "N", "C", "O", "M", "P",
    "[", "]", " ", "=", "\n", "{{", "\n"
  >>

SOURCE_EPILOGUE ==
  <<
    "}}", ";", "\n", "\n", "c", "o", "n", "s", "t", " ", "t", "I", "m", "a",
    "g", "e", " ", " ", "{0}", "1", "B", "P", "P", "_", "U", "N", "C", "O",
    "M", "P", "=", "\n", "{{", "\n", "\t", "I", "M", "A", "G", "E", "_", "F",
    "M", "T", "_", "1", "B", "P", "P", "_", "U", "N", "C", "O", "M", "P",
    ",", "\n", "\t", "{1}", ",", "\n", "\t", "{2}", ",", "\n", "\t", "2",
    ",", "\n", "\t", "g", "_", "g", "f", "x", "_", "p", "a", "l", "e", "t",
    "t", "e", ",", "\n", "\t", "p", "i", "x", "e", "l", "_", "{0}", "1", "B",
    "P", "P", "_", "U", "N", "C", "O", "M", "P", ",", "\n", "}}", ";", "\n",
    "\n"
  >>

(* ------------------------- library behaviour --------------------------- *)
HEXCHARS == <<"0", "1", "2", "3", "4", "5", "6", "7",
              "8", "9", "a", "b", "c", "d", "e", "f">>

\* Variant: always two hexadecimal digits, as '{:02x}' would give.
RECURSIVE hex_digits_padded(_)
hex_digits_padded(n) ==
  IF n < 16 THEN <<"0", HEXCHARS[n + 1]>>
  ELSE <<HEXCHARS[((n \div 16) % 16) + 1], HEXCHARS[(n % 16) + 1]>>

\* hex(n)[2:] for n >= 0: the lowercase hexadecimal digits, no padding.
RECURSIVE hex_digits(_)
hex_digits(n) ==
  IF n < 16 THEN <<HEXCHARS[n + 1]>>
  ELSE hex_digits(n \div 16) \o <<HEXCHARS[(n % 16) + 1]>>

\* str(n) for n >= 0, as str.format renders an integer argument.
RECURSIVE str_int(_)
str_int(n) ==
  IF n < 10 THEN <<HEXCHARS[n + 1]>>
  ELSE str_int(n \div 10) \o <<HEXCHARS[(n % 10) + 1]>>

\* One piece of a format template: a doubled brace stands for the brace, a
\* numbered field for the argument of that number, anything else for itself.
format_piece(p, args) ==
  CASE p = "{{"  -> <<"{">>
    [] p = "}}"  -> <<"}">>
    [] p = "{0}" -> args[1]
    [] p = "{1}" -> args[2]
    [] p = "{2}" -> args[3]
    [] OTHER     -> <<p>>

\* template.format(*args): the pieces of the template, each expanded, in
\* template order (the range is halved to keep the evaluation shallow).
RECURSIVE format_range(_, _, _, _)
format_range(template, args, lo, hi) ==
  IF lo > hi THEN <<>>
  ELSE IF lo = hi THEN format_piece(template[lo], args)
  ELSE LET mid == (lo + hi) \div 2
       IN  format_range(template, args, lo, mid)
           \o format_range(template, args, mid + 1, hi)

format(template, args) == format_range(template, args, 1, Len(template))

\* math.ceil(n / d) for n >= 0, d > 0
math_ceil(n, d) == IF n % d = 0 THEN n \div d ELSE (n \div d) + 1

\* 1 << k
RECURSIVE shift_left(_, _)
shift_left(v, k) == IF k = 0 THEN v ELSE shift_left(2 * v, k - 1)

\* imghdr.what(path): the format label sniffed from the file's header.
imghdr_what(path) == IF path = ARG_BMP THEN "bmp" ELSE "None"

\* The names bound at module level; a call through any other name raises
\* NameError when it is evaluated.
Globals == {"print_debug", "print_err", "print_result", "check_bmp",
            "create_output_source", "convert_monochrome", "get_args", "main"}

(* --------------------------- program helpers --------------------------- *)
Msg(level, text) == [level |-> level, text |-> text]

print_debug(out, message) == Append(out, Msg("DEBUG", message))
print_err(out, message) == Append(out, Msg("ERROR", message))
print_result(out, message) == Append(out, Msg("RESULT", message))

\* Variant: only too few arguments are refused.
too_few_args(file_names) == Len(file_names) < 2

\* `not len(file_names) == 2`
wrong_arg_count(file_names) == ~(Len(file_names) = 2)

check_bmp(input_file_name) == "bmp" = imghdr_what(input_file_name)

\* image_grayscale / 255: every element becomes the quotient v/255, kept as
\* the pair <<numerator, denominator>>.
divide_by_255(img) ==
  [img EXCEPT !.px = [r \in DOMAIN img.px |->
                         [c \in DOMAIN img.px[r] |-> <<img.px[r][c], 255>>]]]

\* Variant: the quotient is rounded to the nearer of 0 and 1 first.
truthy_rounded(q) == 2 * q[1] >= q[2]

\* Truth value of a quotient in `if image_monochrome[y][x]`: non-zero.
truthy(q) == q[1] # 0

\* Variant: the column count taken as w/8 + 1 instead of ceil(w/8).
empty_output_plus_one(h, w) == [r \in 0..(h - 1) |-> [c \in 0..(w \div 8) |-> 0]]

\* [[0 for x in range(ceil(w/8))] for y in range(h)]
empty_output(h, w) == [r \in 0..(h - 1) |-> [c \in 0..(math_ceil(w, 8) - 1) |-> 0]]

\* Variant: the leftmost pixel of a group in the least significant bit.
set_bit_lsb_first(arr, r, c) ==
  [arr EXCEPT ![r][c \div 8] = @ + shift_left(1, c % 8)]

\* Variant: the bit position counted down from 8 instead of 7.
set_bit_from_8(arr, r, c) ==
  [arr EXCEPT ![r][c \div 8] = @ + shift_left(1, 8 - (c % 8))]

\* The assignment of the inner loop body for pixel (r, c).
set_bit(arr, r, c) ==
  [arr EXCEPT ![r][c \div 8] = @ + shift_left(1, 7 - (c % 8))]

pack_pixel(arr, mono, r, c) ==
  IF truthy(mono.px[r][c]) THEN set_bit(arr, r, c) ELSE arr

NumRows(m) == Cardinality(DOMAIN m)

\* The inner loop of the body: line += '0x' + hex(byte)[2:] + ', '
RECURSIVE line_from(_, _)
line_from(byte_arr, k) ==
  IF k >= Cardinality(DOMAIN byte_arr) THEN <<>>
  ELSE <<"0", "x">> \o hex_digits(byte_arr[k]) \o <<",", " ">>
       \o line_from(byte_arr, k + 1)

body_line(byte_arr) == line_from(byte_arr, 0) \o <<"\n">>

file_name_of(obj_name) == obj_name \o <<".", "c">>

\* Variant: the file name interpolated instead of the object name.
prologue_text_file_name(obj_name) == format(SOURCE_PROLOGUE, <<file_name_of(obj_name)>>)

prologue_text(obj_name) == format(SOURCE_PROLOGUE, <<obj_name>>)

\* Variant: the two dimensions passed in the opposite order.
epilogue_text_swapped(obj_name, dims) ==
  format(SOURCE_EPILOGUE, <<obj_name, str_int(dims[2]), str_int(dims[1])>>)

epilogue_text(obj_name, dims) ==
  format(SOURCE_EPILOGUE, <<obj_name, str_int(dims[1]), str_int(dims[2])>>)

\* Leaving the `with open(...)` block, normally or by an exception, closes
\* the file object.
with_exit(h) == "closed"

(* ------------------------------ states --------------------------------- *)
Init ==
  /\ argv \in SeqsUpTo(ArgStrings, MaxArgs)
  /\ pc = "main"
  /\ retval = <<>>
  /\ exception = "none"
  /\ console = <<>>
  /\ calls = <<>>
  /\ image_grayscale = NoImage
  /\ image_monochrome = NoImage
  /\ img_height = 0
  /\ img_width = 0
  /\ output_arr = <<>>
  /\ y = 0
  /\ x = 0
  /\ output_obj_name = <<>>
  /\ bitmap_dimensions = <<0, 0>>
  /\ bitmap_values = <<>>
  /\ output_file_name = <<>>
  /\ handle = "none"
  /\ file_exists = FALSE
  /\ file_text = <<>>
  /\ writes = <<>>
  /\ row = 0

imageVars == <<image_grayscale, image_monochrome, img_height, img_width,
               output_arr, y, x>>
emitVars == <<output_obj_name, bitmap_dimensions, bitmap_values,
              output_file_name, handle, file_exists, file_text, writes, row>>

\* main, lines 133-137: any argument count other than two.
MainWrongArgs ==
  /\ pc = "main"
  /\ wrong_arg_count(argv)
  /\ console' = print_err(print_debug(console, "args"), "Wrong number of arguments")
  /\ calls' = Append(calls, "main")
  /\ retval' = <<-1>>
  /\ pc' = "done"
  /\ UNCHANGED <<argv, exception, imageVars, emitVars>>

\* main, lines 133-142 with exactly two arguments.  The condition
\* `not check_bmp(f) and check_monochrome(f)` stops at its left operand
\* when the file is a BMP; otherwise it evaluates the name check_monochrome.
MainValidate ==
  /\ pc = "main"
  /\ ~wrong_arg_count(argv)
  /\ calls' = calls \o <<"main", "check_bmp">>
  /\ IF check_bmp(argv[1])
       THEN /\ pc' = "convert"
            /\ console' = print_debug(console, "args")
            /\ UNCHANGED <<retval, exception>>
       ELSE IF "check_monochrome" \in Globals
         THEN /\ console' = print_err(print_debug(console, "args"),
                                      "is not a monochrome bmp file")
              /\ retval' = <<-2>>
              /\ pc' = "done"
              /\ UNCHANGED exception
         ELSE /\ console' = print_debug(console, "args")
              /\ exception' = "NameError"
              /\ pc' = "raised"
              /\ UNCHANGED retval
  /\ UNCHANGED <<argv, imageVars, emitVars>>

\* convert_monochrome, lines 105-113: decode, normalise, take the shape and
\* build the zeroed byte matrix.
Imread ==
  /\ pc = "convert"
  /\ \E img \in Images :
       /\ image_grayscale' = img
       /\ image_monochrome' = divide_by_255(img)
       /\ img_height' = img.h
       /\ img_width' = img.w
       /\ output_arr' = empty_output(img.h, img.w)
       /\ pc' = IF img.h * img.w = 0 THEN "packed" ELSE "pack"
  /\ y' = 0
  /\ x' = 0
  /\ calls' = calls \o <<"convert_monochrome", "imread">>
  /\ console' = print_debug(print_debug(console, "dimensions"), "image_monochrome")
  /\ UNCHANGED <<argv, retval, exception, emitVars>>

\* cv2.imread returns None for a file it cannot decode; the division on
\* line 107 then raises TypeError.
ImreadFails ==
  /\ pc = "convert"
  /\ calls' = calls \o <<"convert_monochrome", "imread">>
  /\ exception' = "TypeError"
  /\ pc' = "raised"
  /\ UNCHANGED <<argv, retval, console, imageVars, emitVars>>

\* One iteration of the loops on lines 115-118, for pixel (y, x).
PackStep ==
  /\ pc = "pack"
  /\ y < img_height
  /\ x < img_width
  /\ output_arr' = pack_pixel(output_arr, image_monochrome, y, x)
  /\ IF x + 1 < img_width
       THEN /\ x' = x + 1
            /\ y' = y
            /\ pc' = "pack"
       ELSE /\ x' = 0
            /\ y' = y + 1
            /\ pc' = IF y + 1 < img_height THEN "pack" ELSE "packed"
  /\ UNCHANGED <<argv, retval, exception, console, calls, image_grayscale,
                 image_monochrome, img_height, img_width, emitVars>>

\* Line 121 and lines 75-79: the call of create_output_source and the
\* opening of <name>.c for writing, which creates or truncates it.
CreateOpen ==
  /\ pc = "packed"
  /\ output_obj_name' = argv[2]
  /\ bitmap_dimensions' = <<img_width, img_height>>
  /\ bitmap_values' = output_arr
  /\ output_file_name' = file_name_of(argv[2])
  /\ console' = print_debug(console, "create_output_source")
  /\ calls' = calls \o <<"create_output_source", "open">>
  /\ handle' = "open"
  /\ file_exists' = TRUE
  /\ file_text' = <<>>
  /\ pc' = "prologue"
  /\ UNCHANGED <<argv, retval, exception, imageVars, writes, row>>

\* open() raising (for instance a read-only directory): no file object.
OpenFails ==
  /\ pc = "packed"
  /\ output_obj_name' = argv[2]
  /\ bitmap_dimensions' = <<img_width, img_height>>
  /\ bitmap_values' = output_arr
  /\ output_file_name' = file_name_of(argv[2])
  /\ console' = print_debug(console, "create_output_source")
  /\ calls' = calls \o <<"create_output_source", "open">>
  /\ exception' = "OSError"
  /\ pc' = "raised"
  /\ UNCHANGED <<argv, retval, imageVars, handle, file_exists, file_text,
                 writes, row>>

\* Lines 81-82.
WritePrologue ==
  /\ pc = "prologue"
  /\ LET prologue == prologue_text(output_obj_name)
     IN  /\ file_text' = file_text \o prologue
         /\ writes' = Append(writes, Len(prologue))
  /\ row' = 0
  /\ pc' = IF NumRows(bitmap_values) = 0 THEN "epilogue" ELSE "body"
  /\ UNCHANGED <<argv, retval, exception, console, calls, imageVars,
                 output_obj_name, bitmap_dimensions, bitmap_values,
                 output_file_name, handle, file_exists>>

\* One iteration of the loop on lines 85-89.
WriteBodyLine ==
  /\ pc = "body"
  /\ row < NumRows(bitmap_values)
  /\ LET line == body_line(bitmap_values[row])
     IN  /\ file_text' = file_text \o line
         /\ writes' = Append(writes, Len(line))
  /\ row' = row + 1
  /\ pc' = IF row + 1 < NumRows(bitmap_values) THEN "body" ELSE "epilogue"
  /\ UNCHANGED <<argv, retval, exception, console, calls, imageVars,
                 output_obj_name, bitmap_dimensions, bitmap_values,
                 output_file_name, handle, file_exists>>

\* Lines 92-95.
WriteEpilogue ==
  /\ pc = "epilogue"
  /\ LET epilogue == epilogue_text(output_obj_name, bitmap_dimensions)
     IN  /\ file_text' = file_text \o epilogue
         /\ writes' = Append(writes, Len(epilogue))
  /\ pc' = "close"
  /\ UNCHANGED <<argv, retval, exception, console, calls, imageVars,
                 output_obj_name, bitmap_dimensions, bitmap_values,
                 output_file_name, handle, file_exists, row>>

\* The normal end of the with block; both functions then return.
CloseFile ==
  /\ pc = "close"
  /\ handle' = with_exit(handle)
  /\ calls' = Append(calls, "close")
  /\ pc' = "converted"
  /\ UNCHANGED <<argv, retval, exception, console, imageVars,
                 output_obj_name, bitmap_dimensions, bitmap_values,
                 output_file_name, file_exists, file_text, writes, row>>

\* Variant: the file closed only by an explicit close() after the last
\* write, so a write that raises leaves it open.
WriteFails_left_open ==
  /\ pc \in {"prologue", "body", "epilogue"}
  /\ handle' = handle
  /\ UNCHANGED calls
  /\ exception' = "OSError"
  /\ pc' = "raised"
  /\ UNCHANGED <<argv, retval, console, imageVars,
                 output_obj_name, bitmap_dimensions, bitmap_values,
                 output_file_name, file_exists, file_text, writes, row>>

\* A write raising inside the with block: the block is left by the
\* exception, which nothing catches.
WriteFails ==
  /\ pc \in {"prologue", "body", "epilogue"}
  /\ handle' = with_exit(handle)
  /\ calls' = Append(calls, "close")
  /\ exception' = "OSError"
  /\ pc' = "raised"
  /\ UNCHANGED <<argv, retval, console, imageVars,
                 output_obj_name, bitmap_dimensions, bitmap_values,
                 output_file_name, file_exists, file_text, writes, row>>

\* main, lines 143-144.
MainSuccess ==
  /\ pc = "converted"
  /\ console' = print_result(console, "converted successfully")
  /\ retval' = <<0>>
  /\ pc' = "done"
  /\ UNCHANGED <<argv, exception, calls, imageVars, emitVars>>

Next ==
  \/ MainWrongArgs
  \/ MainValidate
  \/ Imread
  \/ ImreadFails
  \/ PackStep
  \/ CreateOpen
  \/ OpenFails
  \/ WritePrologue
  \/ WriteBodyLine
  \/ WriteEpilogue
  \/ CloseFile
  \/ WriteFails
  \/ MainSuccess

Spec == Init /\ [][Next]_vars

(* ------------------------- auxiliary operators ------------------------- *)
\* The Python list with the elements of the sequence s (indexed from 0).
ListOf(s) == [i \in 0..(Len(s) - 1) |-> s[i + 1]]

Pow2(k) == shift_left(1, k)

\* Bit number k of the non-negative integer n.
BitOf(n, k) == (n \div Pow2(k)) % 2

\* The least n with 8 * n >= w.
CeilOfEighth(w) == CHOOSE n \in 0..(w + 1) : 8 * n >= w /\ 8 * n < w + 8

\* The packing loop has run to its end (a crash before decoding leaves
\* pc = "raised" with no image).
LoopFinished == pc \notin {"main", "convert", "pack"} /\ "imread" \in {calls[i] : i \in DOMAIN calls} /\ exception # "TypeError"

\* create_output_source has been entered.
EmitterCalled == \E i \in DOMAIN calls : calls[i] = "create_output_source"

\* Pixel (r, c) lies before the loop cursor (y, x) in row-major order.
Processed(r, c) == pc # "pack" \/ r < y \/ (r = y /\ c < x)

(* ------------------------------- claims -------------------------------- *)
\* C1: once the packing loop has finished, bit 7 - (x mod 8) of
\* output_arr[y][x div 8] is 0 where the raw intensity is 0 and 1 where it is
\* in 1..255; the row [0,255,0,255,255,0,255,0] packs to the byte 0x5A.
C1_PackedBitsMatchPixels ==
  LoopFinished =>
    /\ \A r \in 0..(image_grayscale.h - 1) : \A c \in 0..(image_grayscale.w - 1) :
         BitOf(output_arr[r][c \div 8], 7 - (c % 8))
           = (IF image_grayscale.px[r][c] = 0 THEN 0 ELSE 1)
    /\ (image_grayscale.h = 1 /\ image_grayscale.w = 8
        /\ image_grayscale.px[0] = [c \in 0..7 |-> IF c \in {1, 3, 4, 6} THEN 255 ELSE 0])
         => output_arr[0][0] = 90

C1_Witness ==
  /\ pc = "packed"
  /\ image_grayscale.h = 1 /\ image_grayscale.w = 8
  /\ image_grayscale.px[0] = [c \in 0..7 |-> IF c \in {1, 3, 4, 6} THEN 255 ELSE 0]
  /\ output_arr[0][0] = 90

\* C2: the matrix handed to create_output_source has exactly H rows of
\* exactly ceil(W/8) bytes, zero-width and zero-height inputs included, and
\* the descriptor handed with it is (W, H).
C2_PackedShape ==
  EmitterCalled =>
    /\ DOMAIN bitmap_values = 0..(image_grayscale.h - 1)
    /\ \A r \in DOMAIN bitmap_values :
         DOMAIN bitmap_values[r] = 0..(CeilOfEighth(image_grayscale.w) - 1)
    /\ bitmap_dimensions = <<image_grayscale.w, image_grayscale.h>>

C2_Witness ==
  /\ EmitterCalled
  /\ image_grayscale.h = 2 /\ image_grayscale.w = 0
  /\ NumRows(bitmap_values) = 2
  /\ bitmap_values[0] = ListOf(<<>>)

\* C3: when W is not a multiple of 8, the last byte of every packed row has
\* its 8*ceil(W/8) - W low-order bits equal to 0.
C3_PaddingBitsZero ==
  (LoopFinished /\ image_grayscale.w % 8 # 0) =>
    \A r \in 0..(image_grayscale.h - 1) :
      LET last == CeilOfEighth(image_grayscale.w) - 1
          pad == 8 * CeilOfEighth(image_grayscale.w) - image_grayscale.w
      IN  \A k \in 0..(pad - 1) : BitOf(output_arr[r][last], k) = 0

C3_Witness ==
  /\ pc = "packed"
  /\ image_grayscale.h = 1 /\ image_grayscale.w = 9
  /\ image_grayscale.px[0][8] = 255
  /\ output_arr[0][1] = 128

\* C10: in every state of the packing loop every cell of output_arr is in
\* 0..255, and its bit k is set exactly when the pixel that owns the bit has
\* already been visited and is non-zero: no bit value is added twice and the
\* addition never carries.
C10_CellsStayBytes ==
  (pc \in {"pack", "packed"}) =>
    \A r \in DOMAIN output_arr : \A c \in DOMAIN output_arr[r] :
      /\ output_arr[r][c] \in 0..255
      /\ \A k \in 0..7 :
           LET col == 8 * c + (7 - k)
           IN  BitOf(output_arr[r][c], k)
                 = (IF col < img_width /\ Processed(r, col)
                       /\ image_grayscale.px[r][col] # 0 THEN 1 ELSE 0)

C10_Witness ==
  /\ pc = "pack"
  /\ img_width = 9 /\ y = 0 /\ x = 5
  /\ output_arr[0][0] = 248

\* Sum of the first n entries of a sequence of lengths.
RECURSIVE SumTo(_, _)
SumTo(lens, n) == IF n = 0 THEN 0 ELSE SumTo(lens, n - 1) + lens[n]

\* The text passed to the i-th write call on the output file.
Chunk(i) == SubSeq(file_text, SumTo(writes, i - 1) + 1, SumTo(writes, i))

Contains(text, sub) ==
  \E i \in 1..(Len(text) - Len(sub) + 1) : SubSeq(text, i,
        i + Len(sub) - 1) = sub

StartsWith(text, sub) == Len(text) >= Len(sub) /\ SubSeq(text, 1,
      Len(sub)) = sub

EndsWith(text, sub) ==
  Len(text) >= Len(sub) /\ SubSeq(text, Len(text) - Len(sub) + 1,
        Len(text)) = sub

\* A byte as the body is claimed to show it: 0x, one or two lowercase
\* hexadecimal digits, a comma and a space.
ByteLiteral(b) ==
  <<"0", "x">>
  \o (IF b < 16 THEN <<HEXCHARS[b + 1]>>
      ELSE <<HEXCHARS[(b \div 16) + 1], HEXCHARS[(b % 16) + 1]>>)
  \o <<",", " ">>

\* The literals of the first n bytes of a row, in column order.
RECURSIVE LiteralsTo(_, _)
LiteralsTo(byte_arr, n) ==
  IF n = 0 THEN <<>> ELSE LiteralsTo(byte_arr,
        n - 1) \o ByteLiteral(byte_arr[n - 1])

ExpectedLine(byte_arr) == LiteralsTo(byte_arr, NumRows(byte_arr)) \o <<"\n">>

\* Every write of create_output_source has been made.
EmissionComplete == pc \in {"close", "converted", "done"} /\ EmitterCalled

\* C6: the text written is the prologue naming pixel_<name>1BPP_UNCOMP[],
\* then one body line per matrix row in row order, then the epilogue whose
\* record lists width, height, 2, g_gfx_palette and the pixel array; the
\* file holds nothing before the prologue or after the epilogue.
C6_ThreePartsInOrder ==
  EmissionComplete =>
    LET R == NumRows(bitmap_values)
    IN  /\ Len(writes) = R + 2
        /\ SumTo(writes, R + 2) = Len(file_text)
        /\ StartsWith(Chunk(1), <<"/", "*", " ", "T", "h", "i", "s", " ", "f",
              "i", "l", "e", " ", "w", "a", "s", " ", "a", "u", "t", "o", "m",
              "a", "t", "i", "c", "a", "l", "l", "y", " ", "g", "e", "n", "e",
              "r", "a", "t", "e", "d">>)
        /\ EndsWith(Chunk(1), <<"s", "t", "a", "t", "i", "c", " ", "c", "o",
              "n", "s", "t", " ", "u", "n", "s", "i", "g", "n", "e", "d", " ",
              "c", "h", "a", "r", " ", "p", "i", "x", "e", "l",
              "_">> \o output_obj_name
                              \o <<"1", "B", "P", "P", "_", "U", "N", "C",
                                    "O", "M", "P", "[", "]", " ", "=", "\n",
                                    "{", "\n">>)
        /\ \A i \in 1..R : Chunk(i + 1) = ExpectedLine(bitmap_values[i - 1])
        /\ StartsWith(Chunk(R + 2), <<"}", ";", "\n">>)
        /\ EndsWith(Chunk(R + 2),
                    <<"\t", "I", "M", "A", "G", "E", "_", "F", "M", "T", "_",
                          "1", "B", "P", "P", "_", "U", "N", "C", "O", "M",
                          "P", ",", "\n", "\t">> \o str_int(image_grayscale.w)
                    \o <<",", "\n", "\t">> \o str_int(image_grayscale.h)
                    \o <<",", "\n", "\t", "2", ",", "\n", "\t", "g", "_", "g",
                          "f", "x", "_", "p", "a", "l", "e", "t", "t", "e",
                          ",", "\n", "\t", "p", "i", "x", "e", "l",
                          "_">> \o output_obj_name
                    \o <<"1", "B", "P", "P", "_", "U", "N", "C", "O", "M",
                          "P", ",", "\n", "}", ";", "\n", "\n">>)

C6_Witness ==
  /\ pc = "close"
  /\ output_obj_name = ARG_FOO
  /\ bitmap_dimensions = <<4, 2>>
  /\ bitmap_values[0] = ListOf(<<128>>)
  /\ bitmap_values[1] = ListOf(<<16>>)
  /\ Len(writes) = 4

\* The body lines written so far, one for each of the first `row` rows.
BodyLinesWritten == IF pc \in {"body", "epilogue", "close", "converted",
      "done"} \/ (pc = "raised" /\ Len(writes) > 0)
                    THEN Len(writes) - 1 - (IF pc \in {"close", "converted",
                          "done"} THEN 1 ELSE 0)
                    ELSE 0

\* C7: a body line lists the bytes of its row in column order, each as 0x
\* and its lowercase hexadecimal digits without padding, each followed by a
\* comma, and ends with a newline; 5 is 0x5, 0 is 0x0, 255 is 0xff, and a
\* row without bytes gives a line that is only the newline.
C7_BodyLineFormat ==
  \A i \in 1..BodyLinesWritten :
    LET byte_arr == bitmap_values[i - 1]
        line == Chunk(i + 1)
    IN  /\ line = ExpectedLine(byte_arr)
        /\ (byte_arr = ListOf(<<5>>)) => line = <<"0", "x", "5", ",", " ", "\n">>
        /\ (byte_arr = ListOf(<<0>>)) => line = <<"0", "x", "0", ",", " ", "\n">>
        /\ (byte_arr = ListOf(<<255>>)) => line = <<"0", "x", "f", "f", ",", " ",
              "\n">>
        /\ (byte_arr = ListOf(<<>>)) => line = <<"\n">>
        /\ line[Len(line)] = "\n"
        /\ \A k \in 1..(Len(line) - 1) : line[k] # "\n"

C7_Witness ==
  /\ pc = "epilogue"
  /\ bitmap_values = ListOf(<<ListOf(<<255, 128>>)>>)
  /\ Chunk(2) = <<"0", "x", "f", "f", ",", " ", "0", "x", "8", "0", ",", " ",
        "\n">>

\* C8 as stated: for the name foo, the matrix [[0x0]] and the descriptor
\* (8,1) the file contains pixel_foo1BPP_UNCOMP[] and, with one space after
\* tImage, const tImage foo1BPP_UNCOMP=.
C8_Original ==
  (EmissionComplete /\ output_obj_name = ARG_FOO
   /\ bitmap_dimensions = <<8, 1>>
   /\ bitmap_values = ListOf(<<ListOf(<<0>>)>>)) =>
    /\ Contains(file_text, <<"p", "i", "x", "e", "l", "_", "f", "o", "o", "1",
          "B", "P", "P", "_", "U", "N", "C", "O", "M", "P", "[", "]">>)
    /\ Contains(file_text, <<"c", "o", "n", "s", "t", " ", "t", "I", "m", "a",
          "g", "e", " ", "f", "o", "o", "1", "B", "P", "P", "_", "U", "N",
          "C", "O", "M", "P", "=">>)

\* C8 amended: for the name foo, the matrix [[0x0]] and the descriptor (8,1)
\* the file contains pixel_foo1BPP_UNCOMP[] and const tImage  foo1BPP_UNCOMP=
\* with two spaces after tImage, and nowhere the one-space form.
C8_TwoSpaces ==
  (EmissionComplete /\ output_obj_name = ARG_FOO
   /\ bitmap_dimensions = <<8, 1>>
   /\ bitmap_values = ListOf(<<ListOf(<<0>>)>>)) =>
    /\ Contains(file_text, <<"p", "i", "x", "e", "l", "_", "f", "o", "o", "1",
          "B", "P", "P", "_", "U", "N", "C", "O", "M", "P", "[", "]">>)
    /\ Contains(file_text, <<"c", "o", "n", "s", "t", " ", "t", "I", "m", "a",
          "g", "e", " ", " ", "f", "o", "o", "1", "B", "P", "P", "_", "U",
          "N", "C", "O", "M", "P", "=">>)
    /\ ~Contains(file_text, <<"c", "o", "n", "s", "t", " ", "t", "I", "m",
          "a", "g", "e", " ", "f", "o", "o", "1", "B", "P", "P", "_", "U",
          "N", "C", "O", "M", "P", "=">>)

C8_Witness ==
  /\ pc = "done"
  /\ retval = <<0>>
  /\ output_obj_name = ARG_FOO
  /\ bitmap_dimensions = <<8, 1>>
  /\ bitmap_values = ListOf(<<ListOf(<<0>>)>>)
  /\ Len(file_text) > 0


Called(f) == \E i \in DOMAIN calls : calls[i] = f

Printed(level) == \E i \in DOMAIN console : console[i].level = level

Finished == pc \in {"done", "raised"}

\* C4: with any argument count other than two main returns -1 and no output
\* file is created or modified: the file-type check, convert_monochrome and
\* create_output_source are never reached.
C4_WrongArgCount ==
  (Len(argv) # 2) =>
    /\ pc \in {"main", "done"}
    /\ pc = "done" => retval = <<-1>>
    /\ ~Called("check_bmp")
    /\ ~Called("convert_monochrome")
    /\ ~Called("create_output_source")
    /\ ~file_exists /\ file_text = <<>> /\ writes = <<>> /\ handle = "none"

C4_Witness ==
  /\ pc = "done"
  /\ Len(argv) = 3
  /\ retval = <<-1>>
  /\ Printed("ERROR")
  /\ ~file_exists

\* C5: with exactly two arguments and an input file that the type check does
\* not report as bmp, main prints an error message and returns -2, and no
\* output file is written.
C5_NotBmpReturnsMinus2 ==
  (Finished /\ Len(argv) = 2 /\ imghdr_what(argv[1]) # "bmp") =>
    /\ retval = <<-2>>
    /\ Printed("ERROR")
    /\ ~file_exists /\ writes = <<>>

\* C9: success (the result message and return value 0) comes only after the
\* prologue, every body line and the epilogue are in <name>.c and the file
\* object is closed; decoding, packing and emission follow one another
\* without overlap; and the file object is closed on every way out of the
\* emission, whether it completes or a write raises.
C9_CompleteBeforeSuccess ==
  /\ (Printed("RESULT") \/ retval = <<0>>) =>
       /\ handle = "closed"
       /\ file_exists
       /\ output_file_name = argv[2] \o <<".", "c">>
       /\ Len(writes) = NumRows(bitmap_values) + 2
       /\ SumTo(writes, Len(writes)) = Len(file_text)
       /\ EndsWith(file_text, <<"1", "B", "P", "P", "_", "U", "N", "C", "O",
             "M", "P", ",", "\n", "}", ";", "\n", "\n">>)
  /\ (pc = "pack") => (Called("imread") /\ ~Called("open") /\ handle = "none")
  /\ (handle = "open") => (pc \in {"prologue", "body", "epilogue", "close"}
                            /\ LoopFinished)
  /\ (pc \in {"converted", "done", "raised"}) => handle # "open"
  /\ (pc = "raised" /\ Len(writes) > 0) => handle = "closed"

C9_Witness ==
  /\ pc = "done"
  /\ retval = <<0>>
  /\ Printed("RESULT")
  /\ handle = "closed"
  /\ NumRows(bitmap_values) = 2
  /\ Len(writes) = 4


=============================================================================
